---------------------------- MODULE Spec2Model ----------------------------
(* A model of kimchi's REST dispatch layer, src/src/kimchi/controller.py. *)
(* One request is handled at a time: the framework delivers it to the      *)
(* index of a Resource, the index of a Collection or a generated action    *)
(* handler, the handler runs to its response, and the response is sent.    *)
(* The model layer, the schema and the request are the environment.        *)
EXTENDS Integers, Sequences, FiniteSets, TLC

VARIABLES
    model,       \* the names of the methods the model object has
    api_schema,  \* cherrypy.request.app.root.api_schema, or NoSchema
    pc,          \* "idle": no request in flight; "done": a response is ready
    req,         \* the request being answered
    resp,        \* the response: [exc, status, body]
    trace,       \* what the handler did, in order
    isos         \* the info of the IsoPool that StoragePools.__init__ makes

vars == <<model, api_schema, pc, req, resp, trace, isos>>

-----------------------------------------------------------------------------
(* Bounds of the model. *)

\* at most this many capability kinds are missing from the model object
MaxMissing == 1
\* a generated action handler declares at most this many body keys
MaxActionArgs == 2
\* get_list returns at most this many identifiers
MaxList == 1

-----------------------------------------------------------------------------
(* Text. Method names, header values and identifiers are sequences of      *)
(* characters (header values: of tokens), so that upper(), find(),         *)
(* split(), `in' and quote() are computed as Python computes them.         *)

GET == <<"G", "E", "T">>
POST == <<"P", "O", "S", "T">>
PUT == <<"P", "U", "T">>
DELETE == <<"D", "E", "L", "E", "T", "E">>

UpperChar(c) ==
    CASE c = "g" -> "G" [] c = "e" -> "E" [] c = "t" -> "T" [] c = "p" -> "P"
      [] c = "o" -> "O" [] c = "s" -> "S" [] c = "u" -> "U" [] c = "d" -> "D"
      [] c = "l" -> "L" [] OTHER -> c

\* str.upper()
Upper(s) == [i \in 1..Len(s) |-> UpperChar(s[i])]

\* `s in t' for two strings: s occurs in t as a substring
IsSubstring(s, t) ==
    \E i \in 0..(Len(t) - Len(s)) : SubSeq(t, i + 1, i + Len(s)) = s

\* str.find(c): the first index of c (from 1), or -1
Find(s, c) ==
    IF \E i \in 1..Len(s) : s[i] = c
    THEN CHOOSE i \in 1..Len(s) : s[i] = c /\ \A j \in 1..(i - 1) : s[j] # c
    ELSE -1

\* str.split(c): the pieces between the occurrences of c
RECURSIVE Split(_, _)
Split(s, c) ==
    IF Find(s, c) = -1 THEN <<s>>
    ELSE <<SubSeq(s, 1, Find(s, c) - 1)>>
         \o Split(SubSeq(s, Find(s, c) + 1, Len(s)), c)

\* x in a list
InSeq(x, s) == \E i \in 1..Len(s) : s[i] = x

SafeChars == {"v", "m", "p", "1", "2"}

\* urllib2.quote of one character: the safe ones stay, a space is %20
QuoteChar(c) == IF c \in SafeChars THEN <<c>> ELSE <<"%", "2", "0">>

\* urllib2.quote(ident.encode('utf8'))
RECURSIVE Quote(_)
Quote(s) == IF s = <<>> THEN <<>> ELSE QuoteChar(Head(s)) \o Quote(Tail(s))

-----------------------------------------------------------------------------
(* The domain errors of kimchi.exception and the results of a call.        *)

DomainErrors ==
    {"MissingParameter", "InvalidParameter", "InvalidOperation",
     "OperationFailed", "NotFoundError"}

None == [none |-> TRUE]

\* the message of an exception, and the keys it names
Msg(text) == [msg |-> text, keys |-> <<>>, detail |-> ""]

\* One step of the handler, as recorded in the trace.
Ev(ev, fn, args, out) == [ev |-> ev, fn |-> fn, args |-> args, out |-> out]

\* A normal return with value v, a raised exception, and an exception that
\* carries an HTTP status (cherrypy.HTTPError, HTTPRedirect).
Return(v, tr) == [exc |-> "none", status |-> 0, val |-> v, trace |-> tr]
Raise(e, v, tr) == [exc |-> e, status |-> 0, val |-> v, trace |-> tr]
HTTPError(status, msg, tr) ==
    [exc |-> "HTTPError", status |-> status, val |-> msg, trace |-> tr]
HTTPRedirect(status, url, tr) ==
    [exc |-> "HTTPRedirect", status |-> status, val |-> url, trace |-> tr]

\* internal_redirect
internal_redirect(url, tr) ==
    [exc |-> "InternalRedirect", status |-> 0, val |-> url, trace |-> tr]

\* try ... except <the errors of table>: raise cherrypy.HTTPError(table[e])
Except(res, table) ==
    IF res.exc \in DOMAIN table
    THEN HTTPError(table[res.exc],
                   [msg |-> res.exc, keys |-> <<>>, detail |-> res.val.msg],
                   res.trace)
    ELSE res


-----------------------------------------------------------------------------
(* The controller classes of the model: the Resource classes VM,           *)
(* StorageVolume, Task, StoragePool, IsoPool and DebugReport and the       *)
(* Collection classes VMs, DebugReports and StoragePools.                  *)

ResourceClasses ==
    {"vm", "storagevolume", "task", "storagepool", "isopool", "debugreport"}

\* the resources a request path is dispatched to in this model
Addressed == {"vm", "storagevolume", "task"}

CollectionClasses == {"vms", "debugreports", "storagepools"}

\* self.resource of a collection
MemberClass(c) ==
    CASE c = "vms" -> "vm"
      [] c = "debugreports" -> "debugreport"
      [] c = "storagepools" -> "storagepool"

\* get_class_name of an instance: the lower-cased class name
get_class_name(cls) == cls

\* model_fn: '%s_%s' % (get_class_name(cls), fn_name)
model_fn(cls, fn_name) == get_class_name(cls) \o "_" \o fn_name

\* a list, or Python's None
List(l) == [null |-> FALSE, keys |-> l]
Null == [null |-> TRUE, keys |-> <<>>]

\* self.update_params: [] unless the class sets it
update_params(cls) ==
    CASE cls = "vm" -> List(<<"name">>)
      [] cls = "storagepool" -> List(<<"autostart">>)
      [] OTHER -> List(<<>>)

\* the classes that set self.uri_fmt
HasUriFmt(cls) == cls \in {"vm", "storagevolume", "storagepool"}

\* self.uri_fmt, as its literal pieces and its %s places
uri_fmt(cls) ==
    CASE cls = "vm" -> <<"/vms/", "%s">>
      [] cls = "storagevolume" ->
            <<"/storagepools/", "%s", "/storagevolumes/", "%s">>
      [] cls = "storagepool" -> <<"/storagepools/", "%s">>

\* the number of %s places among the first n pieces of a format
RECURSIVE Places(_, _)
Places(fmt, n) ==
    IF n = 0 THEN 0
    ELSE Places(fmt, n - 1) + (IF fmt[n] = "%s" THEN 1 ELSE 0)

\* fmt % tuple(args): the i-th %s becomes args[i]
Format(fmt, args) ==
    [i \in 1..Len(fmt) |->
        IF fmt[i] = "%s" THEN [arg |-> args[Places(fmt, i)]]
        ELSE [lit |-> fmt[i]]]

\* self.model_args: (ident,), and [pool, ident] for a StorageVolume
model_args(cls, pool, ident) ==
    IF cls = "storagevolume" THEN <<pool, ident>> ELSE <<ident>>

\* the keys of self.info the data property reads unconditionally
RequiredFields(cls) ==
    CASE cls = "vm" ->
            {"uuid", "stats", "memory", "cpus", "state", "screenshot",
             "icon", "graphics"}
      [] cls = "storagevolume" ->
            {"type", "capacity", "allocation", "path", "format"}
      [] cls = "storagepool" ->
            {"state", "capacity", "allocated", "available", "path",
             "source", "type", "nr_volumes", "autostart"}
      [] cls = "isopool" -> {"state", "type"}
      [] cls = "task" -> {"status", "message"}
      [] cls = "debugreport" -> {"file", "ctime"}

\* the keys the data property copies when self.info.get(key) is set
OptionalFields(cls) ==
    CASE cls = "storagepool" -> {"task_id"}
      [] cls = "storagevolume" -> {"os_version", "os_distro", "bootable"}
      [] OTHER -> {}

-----------------------------------------------------------------------------
(* The model layer: an object with methods named by convention. What a     *)
(* method returns or raises is the environment's choice.                   *)

Kinds == {"lookup", "update", "delete", "get_list", "create", "action"}

\* the actions the generated handlers of this model call
ActionName(cls) == IF cls = "vm" THEN "start" ELSE "resize"

MethodsOfKind(k) ==
    CASE k = "get_list" -> {model_fn(c, "get_list") : c \in CollectionClasses}
      [] k = "create" -> {model_fn(c, "create") : c \in CollectionClasses}
      [] k = "action" -> {model_fn(c, ActionName(c)) : c \in {"vm", "storagevolume"}}
      [] OTHER -> {model_fn(c, k) : c \in ResourceClasses}

AllMethods == UNION {MethodsOfKind(k) : k \in Kinds}

\* the model objects of this model: the full one, the ones that lack up to
\* MaxMissing kinds of method, and the one with no method at all
Models ==
    {AllMethods \ UNION {MethodsOfKind(k) : k \in missing} :
        missing \in {S \in SUBSET Kinds : Cardinality(S) <= MaxMissing}}
    \cup {{}}

\* getattr(self.model, name) succeeds
HasAttr(name) == name \in model

Idents == {<<"v", "1">>, <<"v", " ", "2">>}
Pools == {<<"p", "1">>}

\* what the model's lookup returns: the fields the class's data reads, and
\* for a storage pool possibly a task_id
Info(cls, task) ==
    [k \in RequiredFields(cls) \cup (IF task THEN {"task_id"} ELSE {}) |-> 1]

\* self.info = {}
EmptyInfo == [k \in {} |-> 1]

Ok(v) == [err |-> "none", val |-> v]

\* the domain errors as outcomes; v fills the place of the value
ErrorsOf(v) == {[err |-> e, val |-> v] : e \in DomainErrors}

\* the outcomes of a lookup; the ISO pool, whose object outlives a request,
\* has a second state that tells one lookup from another
LookupOutcomes(cls) ==
    {Ok(Info(cls, t)) : t \in (IF cls = "storagepool" THEN BOOLEAN ELSE {FALSE})}
    \cup (IF cls = "isopool" THEN {Ok([k \in RequiredFields(cls) |-> 2])}
          ELSE {})
    \cup ErrorsOf(EmptyInfo)

\* update and create return an identifier
IdentOutcomes == {Ok(i) : i \in Idents} \cup ErrorsOf(<<>>)

\* a call whose method returns nothing
VoidOutcomes == {Ok(<<>>)} \cup ErrorsOf(<<>>)

\* the lists of identifiers get_list returns
IdentLists == UNION {[1..n -> Idents] : n \in 0..MaxList}
ListOutcomes == {Ok(l) : l \in IdentLists} \cup ErrorsOf(<<>>)

\* the Task a model create of an async collection returns
TaskOutcomes ==
    {Ok([id |-> 1, status |-> "running"])}
    \cup ErrorsOf([id |-> 0, status |-> "none"])

-----------------------------------------------------------------------------
(* Requests: the method, the headers and the body stream.                  *)

Keys == {"name", "size"}

\* the order in which the keys of a parsed body are iterated
KeyOrder == <<"name", "size">>

\* the JSON value a body gives to a key
ValueOf(k) ==
    IF k = "name" THEN [type |-> "string", v |-> "n"]
    ELSE [type |-> "integer", v |-> "2"]

\* raw bodies: not JSON, a JSON array, a JSON object, and the empty string
Malformed == [kind |-> "malformed", obj |-> <<>>]
Array == [kind |-> "array", obj |-> <<>>]
Object(S) == [kind |-> "object", obj |-> [k \in S |-> ValueOf(k)]]
EmptyString == [kind |-> "empty", obj |-> <<>>]

RawBodies == {Malformed, Array} \cup {Object(S) : S \in SUBSET Keys}

JSONMime == <<"application/json">>

ContentTypes ==
    {JSONMime,
     <<"application/json", ";", "charset=UTF-8">>,
     <<"text/plain">>}

\* the headers of a request without a body
NoHeaders == <<>>

\* the headers of a request with a body, with and without a Content-Type
BodyHeaders ==
    {[h \in {"Content-Length"} |-> <<"n">>]}
    \cup {[h \in {"Content-Length", "Content-Type"} |->
             IF h = "Content-Type" THEN ct ELSE <<"n">>] : ct \in ContentTypes}

Payloads ==
    {[headers |-> NoHeaders, body |-> EmptyString]}
    \cup {[headers |-> h, body |-> b] : h \in BodyHeaders, b \in RawBodies}

\* the payload of a request whose body no handler parses
NoPayload == [headers |-> NoHeaders, body |-> EmptyString]

Methods == {GET, POST, PUT, DELETE, <<"O", "S", "T">>, <<"g", "e", "t">>}

\* validate_method with a tuple: the upper-cased method is one of its items
\* (cherrypy.HTTPError(405) otherwise)
validate_method(method, allowed) == Upper(method) \in allowed

\* validate_method(('POST')): the argument is the string 'POST', and `in' on
\* a string is the substring test
validate_method_str(method, allowed) == IsSubstring(Upper(method), allowed)

\* mime_in_header
mime_in_header(headers, header, mime) ==
    LET accepts == IF header \notin DOMAIN headers THEN JSONMime
                   ELSE headers[header]
        first == IF Find(accepts, ";") # -1
                 THEN SubSeq(accepts, 1, Find(accepts, ";") - 1)
                 ELSE accepts
    IN  InSeq(mime, Split(first, ","))

\* cherrypy.request.body.read(): the body once, the empty string after that
BodyRead(body, tr) ==
    IF \E i \in 1..Len(tr) : tr[i].ev = "read" THEN EmptyString ELSE body

\* json.loads raises ValueError
NotJSON(raw) == raw.kind \in {"malformed", "empty"}

\* parse_request
parse_request(r, tr) ==
    IF "Content-Length" \notin DOMAIN r.headers
    THEN Return(Object({}), tr)
    ELSE LET rawbody == BodyRead(r.body, tr)
             tr2 == Append(tr, Ev("read", "body", <<>>, rawbody.kind))
         IN  IF mime_in_header(r.headers, "Content-Type", JSONMime)
             THEN IF NotJSON(rawbody)
                  THEN HTTPError(400, Msg("Unable to parse JSON request"), tr2)
                  ELSE Return(rawbody, tr2)
             ELSE HTTPError(415,
                            Msg("This API only supports 'application/json'"),
                            tr2)

-----------------------------------------------------------------------------
(* The schema. API.json is not part of the source file; APISchema is a     *)
(* schema of the same shape: per operation, the keys a body must have and  *)
(* the keys that must be strings.                                          *)

NoSchema == [props |-> {}, required |-> <<>>, strings |-> <<>>]

SchemaOps ==
    {"vms_create", "storagepools_create", "debugreports_create",
     "vm_update", "storagevolume_update"}

APISchema ==
    [props |-> SchemaOps,
     required |-> [op \in SchemaOps |-> {"name"}],
     strings |-> [op \in SchemaOps |->
                     IF op = "storagevolume_update" THEN {"size"} ELSE {}]]

\* the messages of validator.iter_errors(request) about key k
KeyErrors(schema, op, obj, k) ==
    (IF k \in schema.required[op] /\ k \notin DOMAIN obj
     THEN <<k \o " is required">> ELSE <<>>)
    \o (IF k \in schema.strings[op] /\ k \in DOMAIN obj
           /\ obj[k].type # "string"
        THEN <<k \o " is not of type string">> ELSE <<>>)

RECURSIVE ObjectErrors(_, _, _, _)
ObjectErrors(schema, op, obj, n) ==
    IF n = 0 THEN <<>>
    ELSE ObjectErrors(schema, op, obj, n - 1)
         \o KeyErrors(schema, op, obj, KeyOrder[n])

\* the messages of validator.iter_errors({operation: params})
iter_errors(schema, op, params) ==
    IF op \notin schema.props THEN <<>>
    ELSE IF params.kind # "object" THEN <<"params is not of type object">>
    ELSE ObjectErrors(schema, op, params.obj, Len(KeyOrder))

\* '; '.join(messages)
RECURSIVE Join(_)
Join(msgs) ==
    IF msgs = <<>> THEN ""
    ELSE IF Len(msgs) = 1 THEN msgs[1]
    ELSE msgs[1] \o "; " \o Join(Tail(msgs))

\* validate_params raising the first message of the validator only
validate_params_FirstError(params, cls, action, tr) ==
    IF api_schema = NoSchema THEN Return(None, tr)
    ELSE LET operation == model_fn(cls, action)
             errors == iter_errors(api_schema, operation, params)
             tr2 == Append(tr, Ev("validate", operation, <<>>, Len(errors)))
         IN  IF errors = <<>> THEN Return(None, tr2)
             ELSE Raise("InvalidParameter", Msg(errors[1]), tr2)

\* validate_params
validate_params(params, cls, action, tr) ==
    IF api_schema = NoSchema THEN Return(None, tr)
    ELSE LET operation == model_fn(cls, action)
             errors == iter_errors(api_schema, operation, params)
             tr2 == Append(tr, Ev("validate", operation, <<>>, Len(errors)))
         IN  IF errors = <<>> THEN Return(None, tr2)
             ELSE Raise("InvalidParameter", Msg(Join(errors)), tr2)

-----------------------------------------------------------------------------
(* Resource. A request r names the class, the pool and the identifier of   *)
(* the dispatched resource; oc gives what each model method would return   *)
(* or raise.                                                               *)

\* the call of a model method, recorded with its outcome
Call(fn, args, outcome, tr) ==
    LET tr2 == Append(tr, Ev("call", fn, args, outcome))
    IN  IF outcome.err = "none" THEN Return(outcome.val, tr2)
        ELSE Raise(outcome.err, Msg(fn), tr2)

\* Resource.lookup: self.info
lookup(cls, args, outcome, tr) ==
    IF HasAttr(model_fn(cls, "lookup"))
    THEN Call(model_fn(cls, "lookup"), args, outcome, tr)
    ELSE Return(EmptyInfo, Append(tr, Ev("noattr", model_fn(cls, "lookup"),
                                         args, EmptyInfo)))

\* the data property: a projection of self.info (KeyError when a key it
\* reads is not there)
data(cls, ident, info, tr) ==
    LET tr2 == Append(tr, Ev("data", cls, <<ident>>, info))
    IN  IF RequiredFields(cls) \subseteq DOMAIN info
        THEN Return([name |-> ident,
                     keys |-> RequiredFields(cls)
                              \cup (OptionalFields(cls) \cap DOMAIN info)],
                    tr2)
        ELSE Raise("KeyError", Msg(cls), tr2)

\* kimchi.template.render
render(name, d) == [template |-> name, data |-> d]

\* Resource.get
get(cls, args, ident, outcome, tr) ==
    LET L == lookup(cls, args, outcome, tr)
        D == data(cls, ident, L.val, L.trace)
    IN  IF L.exc # "none" THEN L
        ELSE IF D.exc # "none" THEN D
        ELSE Return(render(get_class_name(cls), D.val), D.trace)

\* Invalids with the test inverted: the keys that are in update_params
Invalids_Allowed(params, allowed) ==
    SelectSeq(KeyOrder, LAMBDA k : k \in DOMAIN params.obj /\ InSeq(k, allowed))

\* the keys of the body that are not in update_params
Invalids(params, allowed) ==
    SelectSeq(KeyOrder, LAMBDA k : k \in DOMAIN params.obj /\ ~InSeq(k, allowed))

\* the URI an update redirects to
UpdateURI(cls, args, ident) ==
    Format(uri_fmt(cls), SubSeq(args, 1, Len(args) - 1) \o <<Quote(ident)>>)

\* the end of Resource.update without the redirect
AfterUpdate_NoRedirect(r, ident, oc, tr) ==
    get(r.cls, model_args(r.cls, r.pool, r.ident), r.ident, oc.lookup, tr)

\* Resource.update, after the model's update returned ident
AfterUpdate(r, ident, oc, tr) ==
    LET args == model_args(r.cls, r.pool, r.ident)
    IN  IF ident # r.ident
        THEN IF HasUriFmt(r.cls)
             THEN HTTPRedirect(303, UpdateURI(r.cls, args, ident), tr)
             ELSE Raise("AttributeError", Msg("uri_fmt"), tr)
        ELSE get(r.cls, args, r.ident, oc.lookup, tr)

\* Resource.update, from the allow-list check on
CheckedUpdate(r, params, oc, tr) ==
    LET allowed == update_params(r.cls)
        invalids == Invalids(params, allowed.keys)
        U == Call(model_fn(r.cls, "update"), <<r.ident, params>>, oc.update, tr)
    IN  IF ~allowed.null /\ params.kind # "object"
        THEN Raise("AttributeError", Msg("keys"), tr)
        ELSE IF ~allowed.null /\ invalids # <<>>
        THEN HTTPError(405, [msg |-> "are not allowed to be updated",
                             keys |-> invalids, detail |-> ""], tr)
        ELSE IF U.exc # "none" THEN U
        ELSE AfterUpdate(r, U.val, oc, U.trace)

\* Resource.update with the allow-list check before the validation
update_AllowListFirst(r, oc, tr) ==
    LET P == parse_request(r, tr)
        V == validate_params(P.val, r.cls, "update", P.trace)
        invalids == Invalids(P.val, update_params(r.cls).keys)
    IN  IF ~HasAttr(model_fn(r.cls, "update"))
        THEN HTTPError(405, Msg("does not implement update method"), tr)
        ELSE IF P.exc # "none" THEN P
        ELSE IF P.val.kind = "object" /\ invalids # <<>>
        THEN HTTPError(405, [msg |-> "are not allowed to be updated",
                             keys |-> invalids, detail |-> ""], P.trace)
        ELSE IF V.exc # "none" THEN V
        ELSE CheckedUpdate(r, P.val, oc, V.trace)

\* Resource.update with the body parsed before the capability check
update_ParseFirst(r, oc, tr) ==
    LET P == parse_request(r, tr)
        V == validate_params(P.val, r.cls, "update", P.trace)
    IN  IF P.exc # "none" THEN P
        ELSE IF ~HasAttr(model_fn(r.cls, "update"))
        THEN HTTPError(405, Msg("does not implement update method"), P.trace)
        ELSE IF V.exc # "none" THEN V
        ELSE CheckedUpdate(r, P.val, oc, V.trace)

\* Resource.update
update(r, oc, tr) ==
    LET P == parse_request(r, tr)
        V == validate_params(P.val, r.cls, "update", P.trace)
    IN  IF ~HasAttr(model_fn(r.cls, "update"))
        THEN HTTPError(405, Msg("does not implement update method"), tr)
        ELSE IF P.exc # "none" THEN P
        ELSE IF V.exc # "none" THEN V
        ELSE CheckedUpdate(r, P.val, oc, V.trace)

\* the except clauses of Resource.delete
DeleteErrors == [e \in {"OperationFailed", "InvalidOperation"} |->
                    IF e = "OperationFailed" THEN 500 ELSE 400]

\* Resource.delete without its except AttributeError clause
delete_NoExcept(r, oc, tr) ==
    LET fn == model_fn(r.cls, "delete")
        C == Call(fn, model_args(r.cls, r.pool, r.ident), oc.delete, tr)
    IN  IF ~HasAttr(fn) THEN Raise("AttributeError", Msg(fn), tr)
        ELSE IF C.exc = "none"
        THEN Return(None, Append(C.trace, Ev("status", "response", <<>>, 204)))
        ELSE Except(C, DeleteErrors)

\* Resource.delete
delete(r, oc, tr) ==
    LET fn == model_fn(r.cls, "delete")
        C == Call(fn, model_args(r.cls, r.pool, r.ident), oc.delete, tr)
    IN  IF ~HasAttr(fn)
        THEN HTTPError(405, Msg("Delete is not allowed for " \o get_class_name(r.cls)), tr)
        ELSE IF C.exc = "none"
        THEN Return(None, Append(C.trace, Ev("status", "response", <<>>, 204)))
        ELSE Except(C, DeleteErrors)

\* the except clauses of Resource.index, per method
GetErrors ==
    [e \in {"NotFoundError", "InvalidOperation", "OperationFailed"} |->
        CASE e = "NotFoundError" -> 404
          [] e = "InvalidOperation" -> 400
          [] e = "OperationFailed" -> 406]

DeleteIndexErrors == [e \in {"NotFoundError"} |-> 404]

PutErrors ==
    [e \in {"InvalidParameter", "InvalidOperation", "NotFoundError"} |->
        IF e = "NotFoundError" THEN 404 ELSE 400]

\* Resource.index
ResourceIndex(r, oc) ==
    LET method == Upper(r.method)
    IN  IF ~validate_method(r.method, {GET, DELETE, PUT})
        THEN HTTPError(405, Msg("Method Not Allowed"), <<>>)
        ELSE IF method = GET
        THEN Except(get(r.cls, model_args(r.cls, r.pool, r.ident), r.ident,
                        oc.lookup, <<>>), GetErrors)
        ELSE IF method = DELETE
        THEN Except(delete(r, oc, <<>>), DeleteIndexErrors)
        ELSE Except(update(r, oc, <<>>), PutErrors)

-----------------------------------------------------------------------------
(* The generated action handlers.                                          *)

\* model_args.extend(parse_request()[key] for key in action_args): the
\* request is parsed once for every key
RECURSIVE ExtendArgs(_, _, _, _)
ExtendArgs(r, keys, acc, tr) ==
    LET P == parse_request(r, tr)
    IN  IF keys = <<>> THEN Return(acc, tr)
        ELSE IF P.exc # "none" THEN P
        ELSE IF P.val.kind # "object"
        THEN Raise("TypeError", Msg(Head(keys)), P.trace)
        ELSE IF Head(keys) \notin DOMAIN P.val.obj
        THEN Raise("KeyError", Msg(Head(keys)), P.trace)
        ELSE ExtendArgs(r, Tail(keys), Append(acc, P.val.obj[Head(keys)]),
                        P.trace)

\* the except clauses of the wrapper
ActionErrors ==
    [e \in DomainErrors |->
        CASE e = "OperationFailed" -> 500
          [] e = "NotFoundError" -> 404
          [] OTHER -> 400]

\* the try block of the wrapper
ActionBody(r, action_name, action_args, oc) ==
    LET args == model_args(r.cls, r.pool, r.ident)
        fn == model_fn(r.cls, action_name)
        A == IF action_args.null THEN Return(args, <<>>)
             ELSE ExtendArgs(r, action_args.keys, args, <<>>)
        C == Call(fn, A.val, oc.action, A.trace)
    IN  IF A.exc # "none" THEN A
        ELSE IF ~HasAttr(fn) THEN Raise("AttributeError", Msg(fn), A.trace)
        ELSE IF C.exc # "none" THEN C
        ELSE internal_redirect(Format(uri_fmt(r.cls), args),
                               Append(C.trace, Ev("redirect", fn, args, 0)))

\* the wrapper generate_action_handler(action_name, action_args) returns
generate_action_handler(r, action_name, action_args, oc) ==
    IF ~validate_method_str(r.method, POST)
    THEN HTTPError(405, Msg("Method Not Allowed"), <<>>)
    ELSE Except(ActionBody(r, action_name, action_args, oc), ActionErrors)

-----------------------------------------------------------------------------
(* Collection, AsyncCollection and StoragePools.                           *)

ISO_POOL_NAME == <<"kimchi_isos">>

\* Collection.create
create(r, oc, tr) ==
    LET fn == model_fn(r.cls, "create")
        P == parse_request(r, tr)
        V == validate_params(P.val, r.cls, "create", P.trace)
        C == Call(fn, <<P.val>>, oc.create, V.trace)
        tr2 == Append(C.trace, Ev("status", "response", <<>>, 201))
    IN  IF ~HasAttr(fn)
        THEN HTTPError(405, Msg("Create is not allowed for " \o get_class_name(r.cls)), tr)
        ELSE IF P.exc # "none" THEN P
        ELSE IF V.exc # "none" THEN V
        ELSE IF C.exc # "none" THEN C
        ELSE get(MemberClass(r.cls), <<C.val>>, C.val, oc.lookup, tr2)

\* AsyncCollection.create
async_create(r, oc, tr) ==
    LET fn == model_fn(r.cls, "create")
        P == parse_request(r, tr)
        C == Call(fn, <<P.val>>, oc.task, P.trace)
    IN  IF ~HasAttr(fn)
        THEN HTTPError(405, Msg("Create is not allowed for " \o get_class_name(r.cls)), tr)
        ELSE IF P.exc # "none" THEN P
        ELSE IF C.exc # "none" THEN C
        ELSE Return(render("Task", C.val),
                    Append(C.trace, Ev("status", "response", <<>>, 202)))

\* StoragePools.create with the status of Collection.create
storagepools_create_201(r, oc, tr) ==
    LET fn == model_fn(r.cls, "create")
        P == parse_request(r, tr)
        C == Call(fn, <<P.val>>, oc.create, P.trace)
        G == get(MemberClass(r.cls), <<C.val>>, C.val, oc.lookup, C.trace)
    IN  IF ~HasAttr(fn)
        THEN HTTPError(405, Msg("Create is not allowed for " \o get_class_name(r.cls)), tr)
        ELSE IF P.exc # "none" THEN P
        ELSE IF C.exc # "none" THEN C
        ELSE IF G.exc # "none" THEN G
        ELSE Return(G.val, Append(G.trace, Ev("status", "response", <<>>, 201)))

\* StoragePools.create
storagepools_create(r, oc, tr) ==
    LET fn == model_fn(r.cls, "create")
        P == parse_request(r, tr)
        C == Call(fn, <<P.val>>, oc.create, P.trace)
        G == get(MemberClass(r.cls), <<C.val>>, C.val, oc.lookup, C.trace)
        info == G.trace[Len(G.trace)].out
        D == data(MemberClass(r.cls), C.val, info, G.trace)
    IN  IF ~HasAttr(fn)
        THEN HTTPError(405, Msg("Create is not allowed for " \o get_class_name(r.cls)), tr)
        ELSE IF P.exc # "none" THEN P
        ELSE IF C.exc # "none" THEN C
        ELSE IF G.exc # "none" THEN G
        ELSE Return(G.val,
                    Append(D.trace,
                           Ev("status", "response", <<>>,
                              IF "task_id" \in D.val.keys THEN 202 ELSE 201)))

\* the loop of Collection._get_resources: a member per identifier, each
\* looked up
RECURSIVE Members(_, _, _, _, _)
Members(cls, idents, outcomes, acc, tr) ==
    LET n == Len(acc) + 1
        L == lookup(cls, <<idents[n]>>, outcomes[n], tr)
    IN  IF Len(acc) = Len(idents) THEN Return(acc, tr)
        ELSE IF L.exc # "none" THEN L
        ELSE Members(cls, idents, outcomes,
                     Append(acc, [cls |-> cls, ident |-> idents[n],
                                  info |-> L.val]),
                     L.trace)

\* Collection._get_resources
base_get_resources(r, oc, tr) ==
    LET fn == model_fn(r.cls, "get_list")
        C == Call(fn, <<>>, oc.get_list, tr)
    IN  IF ~HasAttr(fn) THEN Return(<<>>, tr)
        ELSE IF C.exc # "none" THEN C
        ELSE Members(MemberClass(r.cls), C.val, oc.lookups, <<>>, C.trace)

\* the places of tr where a lookup assigned the info of the ISO pool
IsosAssigned(tr) ==
    {i \in 1..Len(tr) :
        /\ tr[i].fn = model_fn("isopool", "lookup")
        /\ \/ tr[i].ev = "noattr"
           \/ tr[i].ev = "call" /\ tr[i].out.err = "none"}

\* isos.info after the steps of tr: what the last lookup assigned, and what
\* the object held before the request if none did
IsosInfo(tr) ==
    LET set == IsosAssigned(tr)
        last == CHOOSE i \in set : \A j \in set : j <= i
    IN  IF set = {} THEN isos
        ELSE [set |-> TRUE,
              info |-> IF tr[last].ev = "noattr" THEN EmptyInfo
                       ELSE tr[last].out.val]

\* StoragePools._get_resources without isos.lookup()
storagepools_get_resources_NoLookup(r, oc, tr) ==
    LET S == base_get_resources(r, oc, tr)
    IN  IF S.exc # "none" THEN S
        ELSE Return(Append(S.val, [cls |-> "isopool", ident |-> ISO_POOL_NAME,
                                   info |-> IsosInfo(S.trace).info]),
                    S.trace)

\* StoragePools._get_resources: the list ends with the collection's isos
\* object, looked up
storagepools_get_resources(r, oc, tr) ==
    LET S == base_get_resources(r, oc, tr)
        L == lookup("isopool", <<ISO_POOL_NAME>>, oc.iso, S.trace)
    IN  IF S.exc # "none" THEN S
        ELSE IF L.exc # "none" THEN L
        ELSE Return(Append(S.val, [cls |-> "isopool", ident |-> ISO_POOL_NAME,
                                   info |-> IsosInfo(L.trace).info]),
                    L.trace)

\* self._get_resources()
get_resources(r, oc, tr) ==
    IF r.cls = "storagepools" THEN storagepools_get_resources(r, oc, tr)
    ELSE base_get_resources(r, oc, tr)

\* the loop of Collection.get: data.append(res.data)
RECURSIVE DataList(_, _, _)
DataList(resources, acc, tr) ==
    LET res == resources[Len(acc) + 1]
        D == data(res.cls, res.ident, res.info, tr)
    IN  IF Len(acc) = Len(resources) THEN Return(acc, tr)
        ELSE IF D.exc # "none" THEN D
        ELSE DataList(resources, Append(acc, D.val), D.trace)

\* Collection.get
collection_get(r, oc, tr) ==
    LET S == get_resources(r, oc, tr)
        D == DataList(S.val, <<>>, S.trace)
    IN  IF S.exc # "none" THEN S
        ELSE IF D.exc # "none" THEN D
        ELSE Return(render(get_class_name(r.cls), D.val), D.trace)

\* self.create(*args)
collection_create(r, oc, tr) ==
    CASE r.cls = "debugreports" -> async_create(r, oc, tr)
      [] r.cls = "storagepools" -> storagepools_create(r, oc, tr)
      [] OTHER -> create(r, oc, tr)

\* the except clauses of Collection.index, per method
CollectionGetErrors ==
    [e \in {"InvalidOperation", "NotFoundError"} |->
        IF e = "NotFoundError" THEN 404 ELSE 400]

CollectionPostErrors ==
    [e \in DomainErrors |->
        CASE e = "OperationFailed" -> 500
          [] e = "NotFoundError" -> 404
          [] OTHER -> 400]

\* Collection.index
CollectionIndex(r, oc) ==
    IF ~validate_method(r.method, {GET, POST})
    THEN HTTPError(405, Msg("Method Not Allowed"), <<>>)
    ELSE IF Upper(r.method) = GET
    THEN Except(collection_get(r, oc, <<>>), CollectionGetErrors)
    ELSE Except(collection_create(r, oc, <<>>), CollectionPostErrors)

-----------------------------------------------------------------------------
(* The framework: it delivers one request at a time to the handler the     *)
(* path names and turns what the handler returns or raises into the        *)
(* response.                                                               *)

\* cherrypy.response.status: 200 unless the handler set it
ResponseStatus(tr) ==
    LET set == {i \in 1..Len(tr) : tr[i].ev = "status"}
    IN  IF set = {} THEN 200
        ELSE tr[CHOOSE i \in set : \A j \in set : j <= i].out

\* the response: the handler's return value with the response status, the
\* status of an HTTPError or HTTPRedirect, the target of an internal
\* redirect, and the framework's 500 for any other exception
Respond(res) ==
    [exc |-> res.exc,
     status |-> CASE res.exc = "none" -> ResponseStatus(res.trace)
                  [] res.exc \in {"HTTPError", "HTTPRedirect"} -> res.status
                  [] res.exc = "InternalRedirect" -> 0
                  [] OTHER -> 500,
     body |-> res.val]

NoRequest ==
    [target |-> "none", cls |-> "", pool |-> <<>>, ident |-> <<>>,
     method |-> <<>>, headers |-> NoHeaders, body |-> EmptyString,
     action_name |-> "", action_args |-> Null]

NoResponse == [exc |-> "none", status |-> 0, body |-> None]

\* GET and DELETE requests carry no body
PayloadsOf(method) ==
    IF Upper(method) \in {GET, DELETE} THEN {NoPayload} ELSE Payloads

Request(target, cls, pool, ident, method, payload, name, args) ==
    [target |-> target, cls |-> cls, pool |-> pool, ident |-> ident,
     method |-> method, headers |-> payload.headers, body |-> payload.body,
     action_name |-> name, action_args |-> args]

\* the key lists a generated handler is declared with
RECURSIVE KeyLists(_)
KeyLists(n) ==
    IF n = 0 THEN {<<>>}
    ELSE KeyLists(n - 1)
         \cup {Append(l, k) : l \in {x \in KeyLists(n - 1) : Len(x) = n - 1},
                              k \in Keys}

NoRepeat(l) == \A i, j \in 1..Len(l) : i # j => l[i] # l[j]

ActionArgs ==
    {Null} \cup {List(l) : l \in {x \in KeyLists(MaxActionArgs) : NoRepeat(x)}}

\* the handlers: VM.start, declared without keys, and a StorageVolume
\* handler for every declaration of keys (resize is declared with ['size'])
HandlersOf(cls) == IF cls = "vm" THEN {Null} ELSE ActionArgs

Answer(r, res) ==
    /\ req' = r
    /\ resp' = Respond(res)
    /\ trace' = res.trace
    /\ isos' = IsosInfo(res.trace)
    /\ pc' = "done"
    /\ UNCHANGED <<model, api_schema>>

\* a request on /<collection>/<ident>
ResourceRequest ==
    /\ pc = "idle"
    /\ \E cls \in Addressed, ident \in Idents, pool \in Pools, method \in Methods :
       \E payload \in PayloadsOf(method) :
       \E ou \in (IF Upper(method) = PUT THEN IdentOutcomes ELSE {Ok(<<>>)}),
          ol \in (IF Upper(method) \in {GET, PUT} THEN LookupOutcomes(cls)
                  ELSE {Ok(EmptyInfo)}),
          od \in (IF Upper(method) = DELETE THEN VoidOutcomes ELSE {Ok(<<>>)}) :
          LET r == Request("resource", cls, pool, ident, method, payload, "", Null)
          IN  Answer(r, ResourceIndex(r, [update |-> ou, lookup |-> ol,
                                          delete |-> od]))

\* a request on /<collection>/<ident>/<action>
ActionRequest ==
    /\ pc = "idle"
    /\ \E cls \in {"vm", "storagevolume"}, ident \in Idents, pool \in Pools,
          method \in Methods :
       \E payload \in PayloadsOf(method), action_args \in HandlersOf(cls) :
       \E oa \in (IF validate_method_str(method, POST) THEN VoidOutcomes
                  ELSE {Ok(<<>>)}) :
          LET r == Request("action", cls, pool, ident, method, payload,
                           ActionName(cls), action_args)
          IN  Answer(r, generate_action_handler(r, ActionName(cls), action_args,
                                                [action |-> oa]))

\* a request on /<collection>
CollectionRequest ==
    /\ pc = "idle"
    /\ \E cls \in CollectionClasses, method \in Methods :
       \E payload \in PayloadsOf(method) :
       \E oc \in (IF Upper(method) = POST THEN IdentOutcomes ELSE {Ok(<<>>)}),
          ot \in (IF Upper(method) = POST /\ cls = "debugreports" THEN TaskOutcomes
                  ELSE {Ok([id |-> 0, status |-> "none"])}),
          ol \in (IF Upper(method) = POST /\ cls # "debugreports"
                  THEN LookupOutcomes(MemberClass(cls)) ELSE {Ok(EmptyInfo)}),
          og \in (IF Upper(method) = GET THEN ListOutcomes ELSE {Ok(<<>>)}),
          ols \in (IF Upper(method) = GET
                   THEN [1..MaxList -> LookupOutcomes(MemberClass(cls))]
                   ELSE {[i \in 1..MaxList |-> Ok(EmptyInfo)]}),
          oi \in (IF Upper(method) = GET /\ cls = "storagepools"
                  THEN LookupOutcomes("isopool") ELSE {Ok(EmptyInfo)}) :
          LET r == Request("collection", cls, <<>>, <<>>, method, payload, "", Null)
          IN  Answer(r, CollectionIndex(r, [create |-> oc, task |-> ot,
                                            lookup |-> ol, get_list |-> og,
                                            lookups |-> ols, iso |-> oi]))

\* the response is sent; nothing of the request is kept
Finish ==
    /\ pc = "done"
    /\ pc' = "idle"
    /\ req' = NoRequest
    /\ resp' = NoResponse
    /\ trace' = <<>>
    /\ UNCHANGED <<model, api_schema, isos>>

Init ==
    /\ model \in Models
    /\ api_schema \in {NoSchema, APISchema}
    /\ pc = "idle"
    /\ req = NoRequest
    /\ resp = NoResponse
    /\ trace = <<>>
    /\ isos = [set |-> FALSE, info |-> EmptyInfo]

Next == ResourceRequest \/ ActionRequest \/ CollectionRequest \/ Finish

Spec == Init /\ [][Next]_vars

-----------------------------------------------------------------------------
(* What the claims speak of.                                               *)

Done == pc = "done"

OnResource(method) ==
    Done /\ req.target = "resource" /\ Upper(req.method) = method

OnCollection(method) ==
    Done /\ req.target = "collection" /\ Upper(req.method) = method

\* the places of the trace where the model method fn was called
CallsOf(fn) == {i \in 1..Len(trace) : trace[i].ev = "call" /\ trace[i].fn = fn}

Calls == {i \in 1..Len(trace) : trace[i].ev = "call"}

StatusSet(code) ==
    \E i \in 1..Len(trace) : trace[i].ev = "status" /\ trace[i].out = code

\* the request's body reached the handler as a JSON object
ParsedObject ==
    /\ "Content-Length" \in DOMAIN req.headers
    /\ \/ "Content-Type" \notin DOMAIN req.headers
       \/ req.headers["Content-Type"][1] = "application/json"
    /\ req.body.kind = "object"

\* the keys of the request's body that the resource's allow-list lacks
Offending ==
    {k \in DOMAIN req.body.obj :
        \A i \in 1..Len(update_params(req.cls).keys) :
            update_params(req.cls).keys[i] # k}

HasOffendingKey ==
    /\ ~update_params(req.cls).null
    /\ req.body.kind = "object"
    /\ Offending # {}

\* the body passes the schema of the operation, or there is no schema
SchemaValid(action) ==
    iter_errors(api_schema, model_fn(req.cls, action), req.body) = <<>>

-----------------------------------------------------------------------------
\* C1: a DELETE on a resource whose model has no '<type>_delete' method ends
\* with HTTP 405, not with an exception of a lower layer; no model method is
\* called and the status 204 is not set.
C1_DeleteNotAllowed ==
    (OnResource(DELETE) /\ model_fn(req.cls, "delete") \notin model)
    => /\ resp.exc = "HTTPError"
       /\ resp.status = 405
       /\ Calls = {}
       /\ ~StatusSet(204)

\* C1, witness: such a DELETE was answered by a model that has other methods
C1_Witness ==
    /\ OnResource(DELETE)
    /\ model_fn(req.cls, "delete") \notin model
    /\ model_fn(req.cls, "lookup") \in model
    /\ resp.status = 405

\* C2: a PUT whose body has a key outside the resource's allow-list never
\* calls the model's '<type>_update', whatever parsing and validation give.
C2_NoUpdateOutsideAllowList ==
    (OnResource(PUT) /\ HasOffendingKey)
    => CallsOf(model_fn(req.cls, "update")) = {}

\* C2, witness: the allow-list check stopped a parsed and valid body of a
\* resource that can be updated
C2_Witness ==
    /\ OnResource(PUT)
    /\ HasOffendingKey
    /\ ParsedObject
    /\ model_fn(req.cls, "update") \in model
    /\ resp.status = 405
    /\ resp.body.keys # <<>>

\* C3 as claimed: a PUT whose body has a key outside the allow-list is
\* answered 405 with exactly the offending keys, also when the body fails the
\* update schema (the body parses and the model has '<type>_update').
C3_Original ==
    (/\ OnResource(PUT)
     /\ HasOffendingKey
     /\ ParsedObject
     /\ model_fn(req.cls, "update") \in model)
    => /\ resp.status = 405
       /\ {resp.body.keys[i] : i \in 1..Len(resp.body.keys)} = Offending

\* C3, amended: such a PUT is answered 405 with exactly the offending keys
\* when its body passes the update schema (or no schema is configured); a body
\* that fails the schema is answered 400 InvalidParameter, as validation
\* comes before the allow-list check.
C3_AllowListAfterValidation ==
    (/\ OnResource(PUT)
     /\ HasOffendingKey
     /\ ParsedObject
     /\ model_fn(req.cls, "update") \in model)
    => IF SchemaValid("update")
       THEN /\ resp.exc = "HTTPError"
            /\ resp.status = 405
            /\ {resp.body.keys[i] : i \in 1..Len(resp.body.keys)} = Offending
       ELSE /\ resp.exc = "HTTPError"
            /\ resp.status = 400
            /\ resp.body.msg = "InvalidParameter"

\* C3, witness: with a schema configured, a valid body with an offending key
\* was answered 405
C3_Witness ==
    /\ OnResource(PUT)
    /\ HasOffendingKey
    /\ ParsedObject
    /\ api_schema # NoSchema
    /\ model_fn(req.cls, "update") \in api_schema.props
    /\ SchemaValid("update")
    /\ resp.status = 405
    /\ resp.body.keys # <<>>

-----------------------------------------------------------------------------
\* the create of the collection returned normally
Created == OnCollection(POST) /\ resp.exc = "none"

C5_EmptyListWithoutGetList ==
    (OnCollection(GET) /\ model_fn(req.cls, "get_list") \notin model)
    => /\ resp.exc = "none"
       /\ resp.status = 200
       /\ resp.body.data = <<>>

\* the place of the update call that returned, in a PUT
UpdateReturned(i) ==
    /\ i \in CallsOf(model_fn(req.cls, "update"))
    /\ trace[i].out.err = "none"

\* the URI of the resource with the identifier ident, URL-quoted
QuotedURI(ident) ==
    IF req.cls = "vm" THEN <<[lit |-> "/vms/"], [arg |-> Quote(ident)]>>
    ELSE <<[lit |-> "/storagepools/"], [arg |-> req.pool],
           [lit |-> "/storagevolumes/"], [arg |-> Quote(ident)]>>

\* the places after i where the resource's lookup was called
LookupsAfter(i) ==
    {j \in CallsOf(model_fn(req.cls, "lookup")) :
        j > i /\ trace[j].args = model_args(req.cls, req.pool, req.ident)}

\* C6 as claimed: after the update call of a PUT returned, a changed
\* identifier gives a 303 redirect and no lookup, an unchanged one gives 200
\* with a representation looked up after the update (for a resource with a
\* uri_fmt and a model with '<type>_lookup', and leaving aside the requests
\* a domain error escapes from).
C6_Original ==
    \A i \in 1..Len(trace) :
        (/\ OnResource(PUT)
         /\ UpdateReturned(i)
         /\ HasUriFmt(req.cls)
         /\ model_fn(req.cls, "lookup") \in model
         /\ resp.exc \notin DomainErrors)
        => IF trace[i].out.val # req.ident
           THEN /\ resp.exc = "HTTPRedirect"
                /\ resp.status = 303
                /\ CallsOf(model_fn(req.cls, "lookup")) = {}
           ELSE /\ resp.exc = "none"
                /\ resp.status = 200
                /\ LookupsAfter(i) # {}

\* C6, amended: after the update call of a PUT returned, on a resource with a
\* uri_fmt: a changed identifier gives a 303 redirect to uri_fmt filled with
\* the leading model_args and the URL-quoted new identifier, and no lookup;
\* an unchanged one makes the model's lookup after the update call, in the
\* same request, and the response is 200 with the representation of what
\* that lookup returned, or, when the lookup raises, the response of that
\* error and not 200.
C6_UpdateThenRedirectOrRefetch ==
    \A i \in 1..Len(trace) :
        (/\ OnResource(PUT)
         /\ UpdateReturned(i)
         /\ HasUriFmt(req.cls)
         /\ model_fn(req.cls, "lookup") \in model)
        => IF trace[i].out.val # req.ident
           THEN /\ resp.exc = "HTTPRedirect"
                /\ resp.status = 303
                /\ resp.body = QuotedURI(trace[i].out.val)
                /\ CallsOf(model_fn(req.cls, "lookup")) = {}
           ELSE /\ Cardinality(LookupsAfter(i)) = 1
                /\ \A j \in LookupsAfter(i) :
                     IF trace[j].out.err = "none"
                     THEN /\ resp.exc = "none"
                          /\ resp.status = 200
                          /\ resp.body.template = req.cls
                          /\ resp.body.data.name = req.ident
                          /\ j < Len(trace)
                          /\ trace[j + 1].ev = "data"
                          /\ trace[j + 1].out = trace[j].out.val
                     ELSE /\ resp.exc # "none"
                          /\ resp.status # 200

\* C6, witness: an update kept the identifier and the representation was
\* looked up after it
C6_Witness ==
    /\ OnResource(PUT)
    /\ HasUriFmt(req.cls)
    /\ \E i \in 1..Len(trace) :
          /\ UpdateReturned(i)
          /\ trace[i].out.val = req.ident
          /\ LookupsAfter(i) # {}
    /\ resp.status = 200

-----------------------------------------------------------------------------
\* the status the error taxonomy gives a domain error in this request
MappedStatus(e) ==
    CASE e = "NotFoundError" -> 404
      [] e = "OperationFailed" ->
            IF req.target = "resource" /\ Upper(req.method) = GET
            THEN 406 ELSE 500
      [] OTHER -> 400

\* C7: in every operation, every domain error the model raises ends the
\* request with its mapped status (MissingParameter, InvalidParameter and
\* InvalidOperation 400, NotFoundError 404, OperationFailed 500, and 406 on a
\* resource GET); none escapes unmapped.
C7_EveryDomainErrorMapped ==
    \A i \in 1..Len(trace) :
        (Done /\ i \in Calls /\ trace[i].out.err # "none")
        => /\ resp.exc = "HTTPError"
           /\ resp.status = MappedStatus(trace[i].out.err)

OnAction == Done /\ req.target = "action"

\* C8: a generated action handler answers 405 to every request method other
\* than POST and does not call the model's '<type>_<action>' then (the model
\* has that method).
C8_ActionPostOnly ==
    (/\ OnAction
     /\ Upper(req.method) # POST
     /\ model_fn(req.cls, req.action_name) \in model)
    => /\ resp.exc = "HTTPError"
       /\ resp.status = 405
       /\ CallsOf(model_fn(req.cls, req.action_name)) = {}

\* the values of the declared keys in the request's body, in declared order
DeclaredValues ==
    [n \in 1..Len(req.action_args.keys) |-> req.body.obj[req.action_args.keys[n]]]

\* the handler issued its internal redirect after the place i
RedirectedAfter(i) ==
    \E j \in 1..Len(trace) : j > i /\ trace[j].ev = "redirect"

\* C9: a handler declared with the keys k1..kn, on a POST whose JSON body has
\* all of them, calls '<type>_<action>' exactly once with model_args followed
\* by body[k1],...,body[kn], and redirects to the resource's URI only after
\* that call returned; when the call raises there is no redirect.
C9_ActionCallThenRedirect ==
    (/\ OnAction
     /\ req.method = POST
     /\ ParsedObject
     /\ \A n \in 1..Len(req.action_args.keys) :
            req.action_args.keys[n] \in DOMAIN req.body.obj
     /\ model_fn(req.cls, req.action_name) \in model)
    => /\ Cardinality(CallsOf(model_fn(req.cls, req.action_name))) = 1
       /\ \A i \in CallsOf(model_fn(req.cls, req.action_name)) :
            /\ trace[i].args
                 = model_args(req.cls, req.pool, req.ident) \o DeclaredValues
            /\ IF trace[i].out.err = "none"
               THEN resp.exc = "InternalRedirect" /\ RedirectedAfter(i)
               ELSE resp.exc # "InternalRedirect" /\ ~RedirectedAfter(0)

\* C10: with a schema configured, a POST on a collection that is not async
\* (StoragePools included) whose body fails the '<type>_create' schema never
\* reaches the model's create and ends with 400 InvalidParameter.
C10_CreateValidated ==
    (/\ OnCollection(POST)
     /\ req.cls # "debugreports"
     /\ api_schema # NoSchema
     /\ model_fn(req.cls, "create") \in model
     /\ parse_request(req, <<>>).exc = "none"
     /\ iter_errors(api_schema, model_fn(req.cls, "create"),
                    parse_request(req, <<>>).val) # <<>>)
    => /\ CallsOf(model_fn(req.cls, "create")) = {}
       /\ resp.exc = "HTTPError"
       /\ resp.status = 400
       /\ resp.body.msg = "InvalidParameter"

\* the handler read the request's body
BodyWasRead == \E i \in 1..Len(trace) : trace[i].ev = "read"

\* the request has a Content-Type header whose media type is application/json
DeclaresJSON ==
    /\ "Content-Type" \in DOMAIN req.headers
    /\ req.headers["Content-Type"][1] = "application/json"

\* C11: a request with a body (Content-Length present) that the handler
\* parses ends with 415 when its media type is not application/json, an
\* absent Content-Type header included, and with 400 when it is
\* application/json and the body is not JSON; so a parsed body is returned
\* for application/json requests only.
C11_OnlyJSONBodies ==
    (Done /\ "Content-Length" \in DOMAIN req.headers /\ BodyWasRead)
    => /\ ~DeclaresJSON => (resp.exc = "HTTPError" /\ resp.status = 415)
       /\ (DeclaresJSON /\ req.body.kind = "malformed")
            => (resp.exc = "HTTPError" /\ resp.status = 400)


\* the action of the schema operation the request's handler validates
ValidatedAction == IF req.target = "resource" THEN "update" ELSE "create"

\* the handler reached validate_params: a PUT on a resource or a POST on a
\* Collection, with the capability and a body that parsed
ValidationReached ==
    /\ \/ OnResource(PUT)
       \/ OnCollection(POST) /\ req.cls = "vms"
    /\ model_fn(req.cls, ValidatedAction) \in model
    /\ parse_request(req, <<>>).exc = "none"

\* the messages of the validator about {'<type>_<action>': body}
ValidatorMessages ==
    iter_errors(api_schema, model_fn(req.cls, ValidatedAction),
                parse_request(req, <<>>).val)

Validations == {i \in 1..Len(trace) : trace[i].ev = "validate"}

\* C12: where a handler validates the parsed body, without a schema the
\* validation raises nothing for any body (the handler goes on to the
\* allow-list check, which has no keys to read in a body that is a list, or
\* to the model call); with a schema that the wrapped body
\* {'<type>_<action>': body} violates, one InvalidParameter is raised, its
\* message the validator's messages joined by '; ', and nothing else: the
\* response is its 400 and the model is not called.
C12_ValidateParams ==
    ValidationReached
    => /\ api_schema = NoSchema
            => /\ Validations = {}
               /\ \/ CallsOf(model_fn(req.cls, ValidatedAction)) # {}
                  \/ resp.exc = "HTTPError" /\ resp.status = 405
                  \/ resp.exc = "AttributeError" /\ req.body.kind = "array"
       /\ (api_schema # NoSchema /\ ValidatorMessages # <<>>)
            => /\ Cardinality(Validations) = 1
               /\ resp.exc = "HTTPError"
               /\ resp.status = 400
               /\ resp.body.msg = "InvalidParameter"
               /\ resp.body.detail = Join(ValidatorMessages)
               /\ Len(ValidatorMessages) = 2
                    => resp.body.detail
                         = ValidatorMessages[1] \o "; " \o ValidatorMessages[2]
               /\ Calls = {}

\* C12, witness: a body with two violations was refused with both messages
C12_Witness ==
    /\ ValidationReached
    /\ api_schema # NoSchema
    /\ Len(ValidatorMessages) = 2
    /\ resp.status = 400
    /\ resp.body.detail = "name is required; size is not of type string"

\* C12, witness of the other case: without a schema a body that the schema
\* would refuse reached the model
C12_WitnessNoSchema ==
    /\ ValidationReached
    /\ api_schema = NoSchema
    /\ iter_errors(APISchema, model_fn(req.cls, ValidatedAction),
                   parse_request(req, <<>>).val) # <<>>
    /\ CallsOf(model_fn(req.cls, ValidatedAction)) # {}

\* the places of the trace where a data projection was read
DataReads == {i \in 1..Len(trace) : trace[i].ev = "data"}

\* the lookups, before place i and in this request, that assigned the info
\* of the resource whose data is read at i
LookupsBefore(i) ==
    {j \in 1..(i - 1) :
        /\ trace[j].fn = model_fn(trace[i].fn, "lookup")
        /\ trace[j].args[Len(trace[j].args)] = trace[i].args[1]
        /\ \/ trace[j].ev = "noattr" /\ trace[j].fn \notin model
           \/ trace[j].ev = "call" /\ trace[j].out.err = "none"}

\* the info the lookup at place j assigned
Fetched(j) ==
    IF trace[j].ev = "noattr" THEN EmptyInfo ELSE trace[j].out.val

\* C13: in every request, every read of a resource's data projection comes
\* after a lookup of that resource in the same request (a model lookup that
\* returned, or the empty info when the model has no '<type>_lookup'), and
\* the info it renders is the one such a lookup fetched, not one an earlier
\* request left.
C13_NoStaleInfo ==
    Done => \A i \in DataReads :
                \E j \in LookupsBefore(i) : trace[i].out = Fetched(j)

\* C13, witness: a GET on /storagepools rendered a member and the ISO pool,
\* the long-lived object, with the info its lookup fetched in this request
C13_Witness ==
    /\ OnCollection(GET)
    /\ req.cls = "storagepools"
    /\ resp.status = 200
    /\ Cardinality(DataReads) = 2
    /\ \E i \in DataReads :
          /\ trace[i].fn = "isopool"
          /\ "state" \in DOMAIN trace[i].out
          /\ trace[i].out["state"] = 2
          /\ isos.info = trace[i].out

\* the request asks for an operation the model has no method for
LacksCapability ==
    \/ OnResource(PUT) /\ model_fn(req.cls, "update") \notin model
    \/ OnCollection(POST) /\ model_fn(req.cls, "create") \notin model

\* C14: a PUT on a resource whose model has no '<type>_update', and a POST
\* on a collection whose model has no '<type>_create', end with 405 whatever
\* the body and the content type are, and the body is neither read nor
\* validated against the schema.
C14_CapabilityBeforeBody ==
    LacksCapability
    => /\ resp.exc = "HTTPError"
       /\ resp.status = 405
       /\ ~BodyWasRead
       /\ Validations = {}

\* C14, witness: with a schema configured, a body the parser would refuse
\* for its media type was answered with 405 on a resource, and one that is
\* not JSON on a collection
C14_Witness ==
    /\ LacksCapability
    /\ api_schema # NoSchema
    /\ "Content-Length" \in DOMAIN req.headers
    /\ \/ /\ req.target = "resource"
          /\ "Content-Type" \in DOMAIN req.headers
          /\ req.headers["Content-Type"] = <<"text/plain">>
       \/ /\ req.target = "collection"
          /\ req.body.kind = "malformed"
    /\ resp.status = 405

=============================================================================
